---- MODULE Spec2Model ----
(***************************************************************************)
(* A model of webrtc/audio/audio_send_stream.cc: internal::AudioSendStream *)
(* (construction with codec configuration, Start/Stop with the cross-      *)
(* thread allocator registration, the allocator callback, destruction).    *)
(*                                                                         *)
(* The voice-engine channel, the bitrate allocator, the task queue and the *)
(* event are collaborators whose code is outside audio_send_stream.cc;     *)
(* their behaviour is modelled from their documented contract.             *)
(***************************************************************************)
EXTENDS Integers, Sequences, FiniteSets, TLC

VARIABLES
  stream,      \* "none" | "live" | "destroyed": the AudioSendStream object
  config,      \* config_ of the stream (last constructed one)
  chan,        \* state of the voice-engine channel config_.voe_channel_id
  wiring,      \* channel calls of the constructor before SetupSendCodec()
  setup,       \* calls and result of the constructor's SetupSendCodec()
  prev,        \* what the previous stream's SetupSendCodec() did on the channel
  pc,          \* owning thread: "idle" | "start_wait" | "stop_wait"
  queue,       \* worker_queue_: tasks posted and not yet run
  event,       \* thread_sync_event of the Start()/Stop() in progress
  allocator,   \* bitrate_allocator_: the observer entry of this stream
  log,         \* calls made by Start/Stop/worker/destructor, in order
  nOps,        \* number of Start()/Stop() calls made on the stream
  nUpdates,    \* number of allocator callbacks delivered
  lastUpdate,  \* arguments, channel calls and result of the last callback
  crashed,     \* the process died: a callback reached the destroyed stream,
               \* or an RTC_DCHECK of GetStats() failed
  stats        \* the sources read by the last GetStats() and what it returned

vars == <<stream, config, chan, wiring, setup, prev, pc, queue, event,
          allocator, log, nOps, nUpdates, lastUpdate, crashed, stats>>

----------------------------------------------------------------------------
(* Bounds of the model. *)

\* Start()/Stop() calls made on one stream.
MaxOps == 3
\* Allocator callbacks delivered to one stream.
MaxUpdates == 1

----------------------------------------------------------------------------
(* uint32_t arithmetic.  A value is kept as two 16-bit halves, so that the  *)
(* conversion of a negative int (config_.min_bitrate_kbps * 1000) wraps as  *)
(* it does in the program.                                                  *)

Half == 65536

ToUint32(x) == [hi |-> (x \div Half) % Half, lo |-> x % Half]

U32Gt(a, b) == a.hi > b.hi \/ (a.hi = b.hi /\ a.lo > b.lo)

U32Ge(a, b) == ~U32Gt(b, a)

----------------------------------------------------------------------------
(* Strings are sequences of characters; _stricmp compares them folded to    *)
(* lower case.                                                              *)

ToLowerChar(c) ==
  CASE c = "O" -> "o" [] c = "P" -> "p" [] c = "U" -> "u" [] c = "S" -> "s"
    [] c = "C" -> "c" [] c = "M" -> "m" [] c = "I" -> "i" [] c = "A" -> "a"
    [] c = "G" -> "g"
    [] OTHER -> c

StrICmp(a, b) ==
  IF Len(a) = Len(b) /\ \A i \in 1..Len(a) : ToLowerChar(a[i]) = ToLowerChar(b[i])
  THEN 0 ELSE 1

kOpusCodecName == <<"o", "p", "u", "s">>

IsCodec_CaseSensitive(codec, ref_name) == codec.plname = ref_name

IsCodec(codec, ref_name) == StrICmp(codec.plname, ref_name) = 0

----------------------------------------------------------------------------
(* The channel (VoEBase / VoECodec / ChannelProxy of config_.voe_channel_id) *)

\* CodecInst current_codec = {0}
ZeroCodec == [plname |-> <<>>, pltype |-> 0, plfreq |-> 0, channels |-> 0, rate |-> 0]

FreshChannel ==
  [codec |-> ZeroCodec, vad |-> FALSE, fec |-> FALSE, sending |-> FALSE,
   bitrate |-> ToUint32(0)]

\* VoECodec::GetSendCodec: -1 while no send codec is set, else 0 and the codec.
GetSendCodec(ch) ==
  IF ch.codec = ZeroCodec THEN [ret |-> -1, codec |-> ZeroCodec]
  ELSE [ret |-> 0, codec |-> ch.codec]

\* CodecInst::operator!=, field by field.
CodecInstNe(a, b) ==
  \/ a.plname # b.plname
  \/ a.pltype # b.pltype
  \/ a.plfreq # b.plfreq
  \/ a.channels # b.channels
  \/ a.rate # b.rate

\* What a successful call leaves in the channel.
Effect(ch, fn, args) ==
  CASE fn = "SetVADStatus" -> [ch EXCEPT !.vad = args[1]]
    [] fn = "SetFECStatus" -> [ch EXCEPT !.fec = args[1]]
    [] fn = "SetSendCodec" -> [ch EXCEPT !.codec = args[1]]
    [] fn = "StartSend" -> [ch EXCEPT !.sending = TRUE]
    [] fn = "StopSend" -> [ch EXCEPT !.sending = FALSE]
    [] fn = "SetBitrate" -> [ch EXCEPT !.bitrate = args[1]]
    [] OTHER -> ch

\* One call to the channel: it is recorded, and takes effect when it returns 0.
Invoke(st, fn, args, ret) ==
  [st EXCEPT !.calls = Append(@, [fn |-> fn, args |-> args, ret |-> ret]),
             !.chan = IF ret = 0 THEN Effect(@, fn, args) ELSE @]

\* The calls of SetupSendCodec() whose return value the code tests.
FallibleCalls ==
  {"SetSendCodec", "SetFECStatus", "SetOpusDtx", "SetOpusMaxPlaybackRate",
   "SetSendCNPayloadType", "SetVADStatus"}

\* The channel's answers: at most one of the fatal calls is refused (the
\* procedure ends at the first refusal), and CNG registration on its own.
ReturnCodes ==
  {rc \in [FallibleCalls -> {0, -1}] :
     Cardinality({f \in FallibleCalls \ {"SetSendCNPayloadType"} : rc[f] = -1}) <= 1}

AllAccepted == [f \in FallibleCalls |-> 0]

----------------------------------------------------------------------------
(* AudioSendStream::SetupSendCodec                                          *)

Return(st, v) == [st EXCEPT !.returned = TRUE, !.result = v]

LastRet(st) == st.calls[Len(st.calls)].ret

\* Disable VAD and FEC unless we know the other side wants them.
ResetVadFec(st) ==
  Invoke(Invoke(st, "SetVADStatus", <<FALSE>>, 0), "SetFECStatus", <<FALSE>>, 0)

NeedSetCodec_Always(want, got) == TRUE

\* codec->GetSendCodec(channel, current_codec) != 0 ||
\* (send_codec_spec.codec_inst != current_codec)
NeedSetCodec(want, got) == got.ret # 0 \/ CodecInstNe(want, got.codec)

\* Codec selection that goes on after a refused SetSendCodec.
SelectCodec_NoReturn(cfg, st, rc) ==
  LET want == cfg.send_codec_spec.codec_inst
      got == GetSendCodec(st.chan)
      s1 == Invoke(st, "GetSendCodec", <<got.codec>>, got.ret)
  IN IF NeedSetCodec(want, got)
     THEN Invoke(s1, "SetSendCodec", <<want>>, rc["SetSendCodec"])
     ELSE s1

SelectCodec(cfg, st, rc) ==
  LET want == cfg.send_codec_spec.codec_inst
      got == GetSendCodec(st.chan)
      s1 == Invoke(st, "GetSendCodec", <<got.codec>>, got.ret)
  IN IF NeedSetCodec(want, got)
     THEN LET s2 == Invoke(s1, "SetSendCodec", <<want>>, rc["SetSendCodec"])
          IN IF LastRet(s2) = -1 THEN Return(s2, FALSE) ELSE s2
     ELSE s1

\* FEC should be enabled after SetSendCodec.
EnableFec(cfg, st, rc) ==
  IF cfg.send_codec_spec.enable_codec_fec
  THEN LET s1 == Invoke(st, "SetFECStatus", <<TRUE>>, rc["SetFECStatus"])
       IN IF LastRet(s1) = -1 THEN Return(s1, FALSE) ELSE s1
  ELSE st

\* send_codec_spec.opus_max_playback_rate > 0
PlaybackRateWanted(spec) == spec.opus_max_playback_rate > 0

OpusSettings(cfg, st, rc) ==
  LET spec == cfg.send_codec_spec IN
  IF IsCodec(spec.codec_inst, kOpusCodecName)
  THEN LET s1 == Invoke(st, "SetOpusDtx", <<spec.enable_opus_dtx>>, rc["SetOpusDtx"])
       IN IF LastRet(s1) # 0 THEN Return(s1, FALSE)
          ELSE IF PlaybackRateWanted(spec)
               THEN LET s2 == Invoke(s1, "SetOpusMaxPlaybackRate",
                                     <<spec.opus_max_playback_rate>>,
                                     rc["SetOpusMaxPlaybackRate"])
                    IN IF LastRet(s2) = -1 THEN Return(s2, FALSE) ELSE s2
               ELSE s1
  ELSE st

CnFreq(plfreq) ==
  CASE plfreq = 16000 -> "kFreq16000Hz"
    [] plfreq = 32000 -> "kFreq32000Hz"
    [] OTHER -> "none"

VadWanted_RateOnly(spec) == spec.cng_plfreq = spec.codec_inst.plfreq

\* send_codec_spec.cng_plfreq == send_codec_spec.codec_inst.plfreq &&
\* send_codec_spec.codec_inst.channels == 1
VadWanted(spec) ==
  spec.cng_plfreq = spec.codec_inst.plfreq /\ spec.codec_inst.channels = 1

EnableVad(spec, st, rc) ==
  IF VadWanted(spec)
  THEN LET s1 == Invoke(st, "SetVADStatus", <<TRUE>>, rc["SetVADStatus"])
       IN IF LastRet(s1) = -1 THEN Return(s1, FALSE) ELSE s1
  ELSE st

RegisterCng_Fatal(spec, st, rc) ==
  IF spec.cng_plfreq # 8000
  THEN IF CnFreq(spec.cng_plfreq) = "none" THEN Return(st, FALSE)
       ELSE LET s1 == Invoke(st, "SetSendCNPayloadType",
                             <<spec.cng_payload_type, CnFreq(spec.cng_plfreq)>>,
                             rc["SetSendCNPayloadType"])
            IN IF LastRet(s1) = -1 THEN Return(s1, FALSE) ELSE s1
  ELSE st

\* The CN payload type for 8000 Hz clockrate is fixed at 13; a refused
\* registration is logged and not returned.
RegisterCng(spec, st, rc) ==
  IF spec.cng_plfreq # 8000
  THEN IF CnFreq(spec.cng_plfreq) = "none" THEN Return(st, FALSE)
       ELSE Invoke(st, "SetSendCNPayloadType",
                   <<spec.cng_payload_type, CnFreq(spec.cng_plfreq)>>,
                   rc["SetSendCNPayloadType"])
  ELSE st

\* send_codec_spec.cng_payload_type != -1
CngConfigured(spec) == spec.cng_payload_type # -1

CngAndVad(cfg, st, rc) ==
  LET spec == cfg.send_codec_spec IN
  IF CngConfigured(spec)
  THEN LET s1 == RegisterCng(spec, st, rc)
       IN IF s1.returned THEN s1 ELSE EnableVad(spec, s1, rc)
  ELSE st

\* A procedure that enables FEC before it selects the codec.
SetupSendCodec_FecFirst(cfg, ch, rc) ==
  LET s0 == [chan |-> ch, calls |-> <<>>, returned |-> FALSE, result |-> FALSE]
      s1 == ResetVadFec(s0)
      s2 == EnableFec(cfg, s1, rc)
      s3 == IF s2.returned THEN s2 ELSE SelectCodec(cfg, s2, rc)
      s4 == IF s3.returned THEN s3 ELSE OpusSettings(cfg, s3, rc)
      s5 == IF s4.returned THEN s4 ELSE CngAndVad(cfg, s4, rc)
  IN IF s5.returned THEN s5 ELSE Return(s5, TRUE)

SetupSendCodec(cfg, ch, rc) ==
  LET s0 == [chan |-> ch, calls |-> <<>>, returned |-> FALSE, result |-> FALSE]
      s1 == ResetVadFec(s0)
      s2 == SelectCodec(cfg, s1, rc)
      s3 == IF s2.returned THEN s2 ELSE EnableFec(cfg, s2, rc)
      s4 == IF s3.returned THEN s3 ELSE OpusSettings(cfg, s3, rc)
      s5 == IF s4.returned THEN s4 ELSE CngAndVad(cfg, s4, rc)
  IN IF s5.returned THEN s5 ELSE Return(s5, TRUE)

----------------------------------------------------------------------------
(* Configurations (AudioSendStream::Config)                                 *)

Chars(a, b, c, d) == <<a, b, c, d>>

CodecInst(name, pltype, plfreq, channels, rate) ==
  [plname |-> name, pltype |-> pltype, plfreq |-> plfreq, channels |-> channels,
   rate |-> rate]

Codecs ==
  { CodecInst(Chars("o", "p", "u", "s"), 111, 48000, 2, 64000),
    CodecInst(Chars("O", "P", "U", "S"), 111, 48000, 1, 32000),
    CodecInst(Chars("P", "C", "M", "U"), 0, 8000, 1, 64000),
    CodecInst(Chars("I", "S", "A", "C"), 103, 16000, 1, 32000),
    CodecInst(Chars("G", "7", "2", "2"), 119, 16000, 2, 64000) }

PlaybackRates == {-1, 0, 16000}

CngPayloadTypes == {-1, 13}

CngFreqs == {-1, 8000, 16000, 32000}

\* A configured CNG payload type comes with one of the clock rates the
\* switch in SetupSendCodec() accepts (its default: is RTC_NOTREACHED).
SendCodecSpecs ==
  { s \in [codec_inst : Codecs, enable_codec_fec : BOOLEAN,
           enable_opus_dtx : BOOLEAN, opus_max_playback_rate : PlaybackRates,
           cng_payload_type : CngPayloadTypes, cng_plfreq : CngFreqs] :
      s.cng_payload_type # -1 => s.cng_plfreq # -1 }

MinBitratesKbps == {-2, -1, 64}

MaxBitratesKbps == {-2, -1, 128}

\* RTC_DCHECK_GE(config_.max_bitrate_kbps, config_.min_bitrate_kbps) for the
\* pairs Start() takes as enabled.
BitrateBounds ==
  { b \in MinBitratesKbps \X MaxBitratesKbps :
      (b[1] # -1 /\ b[2] # -1) => b[2] >= b[1] }

kAbsSendTimeUri == "abs-send-time"
kAudioLevelUri == "ssrc-audio-level"
kTransportSequenceNumberUri == "transport-wide-cc"

\* config_.rtp.ssrc of the streams of the model.
LocalSsrc == 1234

MkConfig(spec, bounds, nack_ms, exts) ==
  [rtp |-> [ssrc |-> LocalSsrc, extensions |-> exts,
            nack |-> [rtp_history_ms |-> nack_ms], c_name |-> "cname"],
   voe_channel_id |-> 1,
   send_codec_spec |-> spec,
   min_bitrate_kbps |-> bounds[1],
   max_bitrate_kbps |-> bounds[2]]

DefaultSpec ==
  [codec_inst |-> ZeroCodec, enable_codec_fec |-> FALSE, enable_opus_dtx |-> FALSE,
   opus_max_playback_rate |-> 0, cng_payload_type |-> -1, cng_plfreq |-> -1]

\* The value config holds before a stream is constructed.
NoConfig == MkConfig(DefaultSpec, <<-1, -1>>, 0, <<>>)

\* The configurations of the codec specification: every send codec spec.
CodecConfigs == { MkConfig(s, <<-1, -1>>, 0, <<>>) : s \in SendCodecSpecs }

LifecycleSpec ==
  [codec_inst |-> CodecInst(Chars("o", "p", "u", "s"), 111, 48000, 2, 64000),
   enable_codec_fec |-> TRUE, enable_opus_dtx |-> FALSE,
   opus_max_playback_rate |-> 0, cng_payload_type |-> -1, cng_plfreq |-> -1]

\* The configurations of the lifecycle specification: every pair of bounds.
LifecycleConfigs ==
  { MkConfig(LifecycleSpec, b, 0,
             <<[uri |-> kAbsSendTimeUri, id |-> 3]>>) : b \in BitrateBounds }

LifecycleReturnCodes ==
  {AllAccepted, [AllAccepted EXCEPT !["SetSendCodec"] = -1]}

\* The configurations of the statistics specification.  Nothing in the code
\* rules out a send codec whose clock rate is below 1 kHz, and GetStats()
\* tests for it.
StatsCodecs ==
  { CodecInst(Chars("o", "p", "u", "s"), 111, 48000, 2, 64000),
    CodecInst(Chars("P", "C", "M", "U"), 0, 8000, 1, 64000),
    CodecInst(Chars("s", "l", "o", "w"), 96, 800, 1, 8000) }

StatsConfigs ==
  { MkConfig([DefaultSpec EXCEPT !.codec_inst = c], <<-1, -1>>, 0, <<>>) :
      c \in StatsCodecs }

\* The configurations of the wiring specification: every NACK history and
\* every list of header extensions.
MaxExtensions == 2

NackHistoriesMs == {-50, -20, -1, 0, 1, 19, 20, 50}

RtpExtensions ==
  { [uri |-> kAbsSendTimeUri, id |-> 3], [uri |-> kAudioLevelUri, id |-> 1],
    [uri |-> kTransportSequenceNumberUri, id |-> 5] }

ExtensionLists == UNION { [1..n -> RtpExtensions] : n \in 0..MaxExtensions }

WiringConfigs ==
  { MkConfig(LifecycleSpec, <<-1, -1>>, ms, exts) :
      ms \in NackHistoriesMs, exts \in ExtensionLists }

----------------------------------------------------------------------------
(* AudioSendStream::AudioSendStream                                         *)

\* int / int of C++: the quotient is truncated towards zero.
CDiv(a, b) == IF a >= 0 THEN a \div b ELSE -((-a) \div b)

Call(fn, args) == [fn |-> fn, args |-> args, ret |-> 0]

ExtensionCall(extension) ==
  CASE extension.uri = kAbsSendTimeUri ->
         Call("SetSendAbsoluteSenderTimeStatus", <<TRUE, extension.id>>)
    [] extension.uri = kAudioLevelUri ->
         Call("SetSendAudioLevelIndicationStatus", <<TRUE, extension.id>>)
    [] extension.uri = kTransportSequenceNumberUri ->
         Call("EnableSendTransportSequenceNumber", <<extension.id>>)

NackEnabled_Positive(rtp_history_ms) == rtp_history_ms > 0

\* config_.rtp.nack.rtp_history_ms != 0
NackEnabled(rtp_history_ms) == rtp_history_ms # 0

Wiring(cfg) ==
  << Call("SetRtcEventLog", <<"event_log">>),
     Call("RegisterSenderCongestionControlObjects",
          <<"pacer", "transport_feedback_observer", "packet_router">>),
     Call("SetRTCPStatus", <<TRUE>>),
     Call("SetLocalSSRC", <<cfg.rtp.ssrc>>),
     Call("SetRTCP_CNAME", <<cfg.rtp.c_name>>),
     Call("SetNACKStatus", <<NackEnabled(cfg.rtp.nack.rtp_history_ms),
                             CDiv(cfg.rtp.nack.rtp_history_ms, 20)>>),
     Call("RegisterExternalTransport", <<"send_transport">>) >>
  \o [i \in 1..Len(cfg.rtp.extensions) |-> ExtensionCall(cfg.rtp.extensions[i])]

\* The calls of the constructor, in order: the wiring, then SetupSendCodec().
ConstructorCalls(cfg) == Wiring(cfg) \o << Call("SetupSendCodec", <<>>) >>

CountCalls(calls, fn) == Cardinality({i \in 1..Len(calls) : calls[i].fn = fn})

NoPrev == [ran |-> FALSE, codec_inst |-> ZeroCodec, nSet |-> 0, setRet |-> 0]

\* What a finished SetupSendCodec() run did about the send codec.
Summary(cfg, su) ==
  [ran |-> TRUE, codec_inst |-> cfg.send_codec_spec.codec_inst,
   nSet |-> CountCalls(su.calls, "SetSendCodec"),
   setRet |-> IF \E i \in 1..Len(su.calls) :
                   su.calls[i].fn = "SetSendCodec" /\ su.calls[i].ret = -1
              THEN -1 ELSE 0]

NoSetup == [calls |-> <<>>, result |-> FALSE]

NoUpdate ==
  [valid |-> FALSE, bitrate_bps |-> ToUint32(0), fraction_loss |-> 0, rtt |-> 0,
   calls |-> <<>>, ret |-> 0]

NoObserver ==
  [observer |-> FALSE, min_bitrate_bps |-> ToUint32(0),
   max_bitrate_bps |-> ToUint32(0)]

\* No GetStats() has returned yet.
NoStats == [status |-> "none"]

Init ==
  /\ stream = "none"
  /\ config = NoConfig
  /\ chan = FreshChannel
  /\ wiring = <<>>
  /\ setup = NoSetup
  /\ prev = NoPrev
  /\ pc = "idle"
  /\ queue = <<>>
  /\ event = FALSE
  /\ allocator = NoObserver
  /\ log = <<>>
  /\ nOps = 0
  /\ nUpdates = 0
  /\ lastUpdate = NoUpdate
  /\ crashed = FALSE
  /\ stats = NoStats

\* The constructor: the wiring calls, then SetupSendCodec() once; its result
\* is only logged.
\* A constructor that gives up when SetupSendCodec() fails.
Construct_AbortOnFailure(cfg, rc) ==
  /\ stream \in {"none", "destroyed"}
  /\ pc = "idle"
  /\ ~crashed
  /\ LET s == SetupSendCodec(cfg, chan, rc) IN
       /\ chan' = s.chan
       /\ setup' = [calls |-> s.calls, result |-> s.result]
       /\ stream' = IF s.result THEN "live" ELSE "destroyed"
  /\ config' = cfg
  /\ wiring' = ConstructorCalls(cfg)
  /\ log' = <<>>
  /\ nOps' = 0
  /\ nUpdates' = 0
  /\ lastUpdate' = NoUpdate
  /\ UNCHANGED <<prev, pc, queue, event, allocator, crashed>>
  /\ UNCHANGED stats

Construct(cfg, rc) ==
  /\ stream \in {"none", "destroyed"}
  /\ pc = "idle"
  /\ ~crashed
  /\ LET s == SetupSendCodec(cfg, chan, rc) IN
       /\ chan' = s.chan
       /\ setup' = [calls |-> s.calls, result |-> s.result]
  /\ stream' = "live"
  /\ config' = cfg
  /\ wiring' = ConstructorCalls(cfg)
  /\ log' = <<>>
  /\ nOps' = 0
  /\ nUpdates' = 0
  /\ lastUpdate' = NoUpdate
  /\ UNCHANGED <<prev, pc, queue, event, allocator, crashed>>
  /\ UNCHANGED stats

Entry(op, thread, ret) == [op |-> op, thread |-> thread, ret |-> ret]

\* AudioSendStream::~AudioSendStream.  The members of the stream are gone with
\* it; what its SetupSendCodec() did on the channel is kept in prev.
Destroy ==
  /\ stream = "live"
  /\ pc = "idle"
  /\ ~crashed
  /\ stream' = "destroyed"
  /\ log' = log \o << Entry("DeRegisterExternalTransport", "owner", 0),
                      Entry("ResetCongestionControlObjects", "owner", 0),
                      Entry("SetRtcEventLog", "owner", 0) >>
  /\ config' = NoConfig
  /\ wiring' = <<>>
  /\ setup' = NoSetup
  /\ prev' = Summary(config, setup)
  /\ UNCHANGED <<chan, pc, queue, event, allocator, nOps, nUpdates, lastUpdate,
                 crashed>>
  /\ UNCHANGED stats

----------------------------------------------------------------------------
(* The owning thread: Start() and Stop(); the worker queue                  *)

AdaptiveEnabled_NonNegative(cfg) ==
  cfg.min_bitrate_kbps >= 0 /\ cfg.max_bitrate_kbps >= 0

\* config_.min_bitrate_kbps != -1 && config_.max_bitrate_kbps != -1
AdaptiveEnabled(cfg) ==
  cfg.min_bitrate_kbps # -1 /\ cfg.max_bitrate_kbps # -1

\* The closures Start() and Stop() post to worker_queue_.
AddObserverTask(cfg) ==
  [kind |-> "AddObserver",
   min_bitrate_bps |-> ToUint32(cfg.min_bitrate_kbps * 1000),
   max_bitrate_bps |-> ToUint32(cfg.max_bitrate_kbps * 1000)]

RemoveObserverTask ==
  [kind |-> "RemoveObserver", min_bitrate_bps |-> ToUint32(0),
   max_bitrate_bps |-> ToUint32(0)]

\* The return values of VoEBase::StartSend / StopSend.
SendErrors == {0, -1}

\* base->StartSend(channel) / base->StopSend(channel): an error is only logged.
SendCall(fn, error) ==
  /\ chan' = IF error = 0 THEN Effect(chan, fn, <<>>) ELSE chan
  /\ log' = Append(log, Entry(fn, "owner", error))

\* BitrateAllocator::AddObserver / RemoveObserver: one entry per observer;
\* removing an observer that is not registered changes nothing.
Allocate(alloc, task) ==
  IF task.kind = "AddObserver"
  THEN [observer |-> TRUE, min_bitrate_bps |-> task.min_bitrate_bps,
        max_bitrate_bps |-> task.max_bitrate_bps]
  ELSE NoObserver

\* Start() with the registration made on the calling thread.
Start_OnCallingThread ==
  /\ stream = "live"
  /\ pc = "idle"
  /\ ~crashed
  /\ nOps < MaxOps
  /\ nOps' = nOps + 1
  /\ IF AdaptiveEnabled(config)
     THEN /\ allocator' = Allocate(allocator, AddObserverTask(config))
          /\ \E error \in SendErrors :
               /\ chan' = IF error = 0 THEN Effect(chan, "StartSend", <<>>) ELSE chan
               /\ log' = log \o << Entry("Start", "owner", 0),
                                   Entry("AddObserver", "owner", 0),
                                   Entry("StartSend", "owner", error) >>
     ELSE /\ \E error \in SendErrors :
               /\ chan' = IF error = 0 THEN Effect(chan, "StartSend", <<>>) ELSE chan
               /\ log' = log \o << Entry("Start", "owner", 0),
                                   Entry("StartSend", "owner", error) >>
          /\ UNCHANGED allocator
  /\ UNCHANGED <<stream, config, wiring, setup, prev, pc, queue, event, nUpdates,
                 lastUpdate, crashed>>
  /\ UNCHANGED stats

\* Start() that posts the registration and does not wait for it.
Start_NoWait ==
  /\ stream = "live"
  /\ pc = "idle"
  /\ ~crashed
  /\ nOps < MaxOps
  /\ nOps' = nOps + 1
  /\ queue' = IF AdaptiveEnabled(config)
              THEN Append(queue, AddObserverTask(config)) ELSE queue
  /\ \E error \in SendErrors :
       /\ chan' = IF error = 0 THEN Effect(chan, "StartSend", <<>>) ELSE chan
       /\ log' = log \o << Entry("Start", "owner", 0),
                           Entry("StartSend", "owner", error) >>
  /\ UNCHANGED <<stream, config, wiring, setup, prev, pc, event, allocator,
                 nUpdates, lastUpdate, crashed>>
  /\ UNCHANGED stats

\* Start() up to thread_sync_event.Wait(); all of it when adaptation is off.
Start ==
  /\ stream = "live"
  /\ pc = "idle"
  /\ ~crashed
  /\ nOps < MaxOps
  /\ nOps' = nOps + 1
  /\ IF AdaptiveEnabled(config)
     THEN /\ queue' = Append(queue, AddObserverTask(config))
          /\ event' = FALSE
          /\ pc' = "start_wait"
          /\ log' = Append(log, Entry("Start", "owner", 0))
          /\ UNCHANGED chan
     ELSE /\ \E error \in SendErrors :
               /\ chan' = IF error = 0 THEN Effect(chan, "StartSend", <<>>) ELSE chan
               /\ log' = log \o << Entry("Start", "owner", 0),
                                   Entry("StartSend", "owner", error) >>
          /\ UNCHANGED <<queue, event, pc>>
  /\ UNCHANGED <<stream, config, wiring, setup, prev, allocator, nUpdates,
                 lastUpdate, crashed>>
  /\ UNCHANGED stats

\* Start() that takes the registration back when StartSend fails.
StartResume_Rollback ==
  /\ pc = "start_wait"
  /\ event
  /\ ~crashed
  /\ \E error \in SendErrors :
       /\ chan' = IF error = 0 THEN Effect(chan, "StartSend", <<>>) ELSE chan
       /\ log' = IF error = 0
                 THEN Append(log, Entry("StartSend", "owner", error))
                 ELSE log \o << Entry("StartSend", "owner", error),
                                Entry("RemoveObserver", "owner", 0) >>
       /\ allocator' = IF error = 0 THEN allocator ELSE NoObserver
  /\ pc' = "idle"
  /\ UNCHANGED <<stream, config, wiring, setup, prev, queue, event,
                 nOps, nUpdates, lastUpdate, crashed>>
  /\ UNCHANGED stats

\* Start() after thread_sync_event.Wait() has returned.
StartResume ==
  /\ pc = "start_wait"
  /\ event
  /\ ~crashed
  /\ \E error \in SendErrors : SendCall("StartSend", error)
  /\ pc' = "idle"
  /\ UNCHANGED <<stream, config, wiring, setup, prev, queue, event, allocator,
                 nOps, nUpdates, lastUpdate, crashed>>
  /\ UNCHANGED stats

\* Stop() that stops sending and leaves the registration alone.
Stop_NoDeregistration ==
  /\ stream = "live"
  /\ pc = "idle"
  /\ ~crashed
  /\ nOps < MaxOps
  /\ nOps' = nOps + 1
  /\ \E error \in SendErrors :
       /\ chan' = IF error = 0 THEN Effect(chan, "StopSend", <<>>) ELSE chan
       /\ log' = log \o << Entry("Stop", "owner", 0),
                           Entry("StopSend", "owner", error) >>
  /\ UNCHANGED <<stream, config, wiring, setup, prev, allocator, nUpdates,
                 lastUpdate, crashed, queue, event, pc>>
  /\ UNCHANGED stats

\* Stop() that deregisters only when Start() would have registered.
Stop_OnlyIfEnabled ==
  /\ stream = "live"
  /\ pc = "idle"
  /\ ~crashed
  /\ nOps < MaxOps
  /\ nOps' = nOps + 1
  /\ IF AdaptiveEnabled(config)
     THEN /\ queue' = Append(queue, RemoveObserverTask)
          /\ event' = FALSE
          /\ pc' = "stop_wait"
          /\ log' = Append(log, Entry("Stop", "owner", 0))
          /\ UNCHANGED chan
     ELSE /\ \E error \in SendErrors :
               /\ chan' = IF error = 0 THEN Effect(chan, "StopSend", <<>>) ELSE chan
               /\ log' = log \o << Entry("Stop", "owner", 0),
                                   Entry("StopSend", "owner", error) >>
          /\ UNCHANGED <<queue, event, pc>>
  /\ UNCHANGED <<stream, config, wiring, setup, prev, allocator, nUpdates,
                 lastUpdate, crashed>>
  /\ UNCHANGED stats

\* Stop() up to thread_sync_event.Wait().
Stop ==
  /\ stream = "live"
  /\ pc = "idle"
  /\ ~crashed
  /\ nOps < MaxOps
  /\ nOps' = nOps + 1
  /\ queue' = Append(queue, RemoveObserverTask)
  /\ event' = FALSE
  /\ pc' = "stop_wait"
  /\ log' = Append(log, Entry("Stop", "owner", 0))
  /\ UNCHANGED <<stream, config, chan, wiring, setup, prev, allocator, nUpdates,
                 lastUpdate, crashed>>
  /\ UNCHANGED stats

\* Stop() after thread_sync_event.Wait() has returned.
StopResume ==
  /\ pc = "stop_wait"
  /\ event
  /\ ~crashed
  /\ \E error \in SendErrors : SendCall("StopSend", error)
  /\ pc' = "idle"
  /\ UNCHANGED <<stream, config, wiring, setup, prev, queue, event, allocator,
                 nOps, nUpdates, lastUpdate, crashed>>
  /\ UNCHANGED stats

\* A task that makes the allocator call and never sets the event.
RunTask_NoSet ==
  /\ queue # <<>>
  /\ ~crashed
  /\ allocator' = Allocate(allocator, Head(queue))
  /\ log' = Append(log, Entry(Head(queue).kind, "worker", 0))
  /\ queue' = Tail(queue)
  /\ UNCHANGED <<stream, config, chan, wiring, setup, prev, pc, nOps, nUpdates,
                 lastUpdate, crashed, event>>
  /\ UNCHANGED stats

\* The worker queue runs the task at its head: the allocator call, then
\* thread_sync_event.Set().
RunTask ==
  /\ queue # <<>>
  /\ ~crashed
  /\ allocator' = Allocate(allocator, Head(queue))
  /\ log' = Append(log, Entry(Head(queue).kind, "worker", 0))
  /\ queue' = Tail(queue)
  /\ event' = TRUE
  /\ UNCHANGED <<stream, config, chan, wiring, setup, prev, pc, nOps, nUpdates,
                 lastUpdate, crashed>>
  /\ UNCHANGED stats

----------------------------------------------------------------------------
(* AudioSendStream::OnBitrateUpdated, called by the allocator on the worker *)
(* queue                                                                    *)

Clamp_None(bitrate_bps, max_bitrate_bps) == bitrate_bps

Clamp(bitrate_bps, max_bitrate_bps) ==
  IF U32Gt(bitrate_bps, max_bitrate_bps) THEN max_bitrate_bps ELSE bitrate_bps

OnBitrateUpdated(cfg, bitrate_bps, fraction_loss, rtt) ==
  LET max_bitrate_bps == ToUint32(cfg.max_bitrate_kbps * 1000)
  IN [calls |-> << Call("SetBitrate", <<Clamp(bitrate_bps, max_bitrate_bps)>>) >>,
      ret |-> 0]

\* The bitrates the allocator hands out; -1 stands for 4294967295.
Bitrates == { ToUint32(v) : v \in {64000, 100000, 200000, -1} }

FractionLosses == {0, 255}

Rtts == {0, 100}

\* RTC_DCHECK_GE(bitrate_bps, static_cast<uint32_t>(config_.min_bitrate_kbps * 1000))
BitrateAllowed(cfg, bitrate_bps) ==
  U32Ge(bitrate_bps, ToUint32(cfg.min_bitrate_kbps * 1000))

\* The allocator calls its registered observer.
BitrateUpdate ==
  /\ stream = "live"
  /\ allocator.observer
  /\ ~crashed
  /\ nUpdates < MaxUpdates
  /\ nUpdates' = nUpdates + 1
  /\ \E bitrate_bps \in Bitrates, fraction_loss \in FractionLosses, rtt \in Rtts :
       /\ BitrateAllowed(config, bitrate_bps)
       /\ LET r == OnBitrateUpdated(config, bitrate_bps, fraction_loss, rtt) IN
            /\ chan' = Effect(chan, r.calls[1].fn, r.calls[1].args)
            /\ lastUpdate' = [valid |-> TRUE, bitrate_bps |-> bitrate_bps,
                              fraction_loss |-> fraction_loss, rtt |-> rtt,
                              calls |-> r.calls, ret |-> r.ret]
  /\ log' = Append(log, Entry("SetBitrate", "worker", 0))
  /\ UNCHANGED <<stream, config, wiring, setup, prev, pc, queue, event,
                 allocator, nOps, crashed>>
  /\ UNCHANGED stats

\* The allocator calls an observer whose stream has been destroyed: the call
\* runs on freed memory.  It may kill the process, or run to the end on stale
\* contents and set any bitrate on the channel.
DanglingUpdate ==
  /\ stream = "destroyed"
  /\ allocator.observer
  /\ ~crashed
  /\ nUpdates < MaxUpdates
  /\ nUpdates' = nUpdates + 1
  /\ \/ /\ crashed' = TRUE
        /\ UNCHANGED <<chan, log>>
     \/ /\ \E bitrate_bps \in Bitrates :
             chan' = Effect(chan, "SetBitrate", <<bitrate_bps>>)
        /\ log' = Append(log, Entry("SetBitrate", "worker", 0))
        /\ UNCHANGED crashed
  /\ UNCHANGED <<stream, config, wiring, setup, prev, pc, queue, event,
                 allocator, nOps, lastUpdate>>
  /\ UNCHANGED stats

----------------------------------------------------------------------------
(* AudioSendStream::GetStats                                                *)

\* A field of webrtc::AudioSendStream::Stats that GetStats() has not written
\* to, and one it has written v to.
Unset == <<>>

Written(v) == <<v>>

\* webrtc::AudioSendStream::Stats stats;
DefaultStats ==
  [local_ssrc |-> Unset, bytes_sent |-> Unset, packets_sent |-> Unset,
   rtt_ms |-> Unset, aec_quality_min |-> Unset, codec_name |-> Unset,
   packets_lost |-> Unset, fraction_lost |-> Unset, ext_seqnum |-> Unset,
   jitter_ms |-> Unset, audio_level |-> Unset,
   echo_delay_median_ms |-> Unset, echo_delay_std_ms |-> Unset,
   echo_return_loss |-> Unset, echo_return_loss_enhancement |-> Unset,
   typing_noise_detected |-> Unset]

\* Q8ToFloat: an 8-bit fixed-point fraction as a number, kept as a ratio.
Q8ToFloat(q8_value) == [num |-> q8_value, den |-> 256]

HasRtt_NonNegative(call_stats) == call_stats.rttMs >= 0

\* if (call_stats.rttMs > 0)
HasRtt(call_stats) == call_stats.rttMs > 0

FirstBlockFor_NoBreak(blocks, ssrc) ==
  LET M == {i \in 1..Len(blocks) : blocks[i].source_SSRC = ssrc}
  IN IF M = {} THEN 0 ELSE CHOOSE i \in M : \A j \in M : j <= i

\* for (const auto& block : ...) { if (block.source_SSRC == ...) { ...; break; } }
\* The position of the block the loop stops at; 0 when it runs to the end.
FirstBlockFor(blocks, ssrc) ==
  LET M == {i \in 1..Len(blocks) : blocks[i].source_SSRC = ssrc}
  IN IF M = {} THEN 0 ELSE CHOOSE i \in M : \A j \in M : i <= j

\* The body of the if inside the loop, for the block it stops at.
FromBlock(st, block, codec_inst) ==
  LET s == [st EXCEPT
              !.packets_lost = Written(block.cumulative_num_packets_lost),
              !.fraction_lost = Written(Q8ToFloat(block.fraction_lost)),
              !.ext_seqnum = Written(block.extended_highest_sequence_number)]
  IN IF codec_inst.plfreq \div 1000 > 0
     THEN [s EXCEPT !.jitter_ms =
             Written(block.interarrival_jitter \div (codec_inst.plfreq \div 1000))]
     ELSE s

\* The report blocks read whether or not the send codec is known.
CodecAndBlocks_Unnested(st, ch, blocks) ==
  LET got == GetSendCodec(ch)
      s == IF got.ret # -1 THEN [st EXCEPT !.codec_name = Written(got.codec.plname)]
           ELSE st
      b == FirstBlockFor(blocks, s.local_ssrc[1])
  IN IF b # 0 THEN FromBlock(s, blocks[b], got.codec) ELSE s

\* if (codec->GetSendCodec(config_.voe_channel_id, codec_inst) != -1) { ... }
CodecAndBlocks(st, ch, blocks) ==
  LET got == GetSendCodec(ch) IN
    IF got.ret # -1
    THEN LET s == [st EXCEPT !.codec_name = Written(got.codec.plname)]
             b == FirstBlockFor(blocks, s.local_ssrc[1])
         IN IF b # 0 THEN FromBlock(s, blocks[b], got.codec) ELSE s
    ELSE st

\* A read through an out-parameter: the local keeps its initial value when
\* the call returns an error.
Out(read, field, initial) == IF read.error = 0 THEN read[field] ELSE initial

\* bool echo_metrics_on = false; error = processing->GetEcMetricsStatus(...)
EchoMetricsOn(src) == Out(src.ec_status, "enabled", FALSE)

\* if (echo_metrics_on) { ... }
EchoMetrics(st, src) ==
  IF EchoMetricsOn(src)
  THEN [st EXCEPT
          !.echo_delay_median_ms = Written(Out(src.ec_delay, "median", -1)),
          !.echo_delay_std_ms = Written(Out(src.ec_delay, "std", -1)),
          !.echo_return_loss = Written(Out(src.echo, "erl", -100)),
          !.echo_return_loss_enhancement = Written(Out(src.echo, "erle", -100))]
  ELSE st

\* The RTC_DCHECK_EQ(0, error) that GetStats() runs into, in order.
DChecksHold(src) ==
  /\ src.speech.error = 0
  /\ src.ec_status.error = 0
  /\ EchoMetricsOn(src) => src.ec_delay.error = 0 /\ src.echo.error = 0

\* The snapshot, for the channel ch and what the other sources answer.
GetStats(cfg, ch, src) ==
  LET s1 == [DefaultStats EXCEPT
               !.local_ssrc = Written(cfg.rtp.ssrc),
               !.bytes_sent = Written(src.call_stats.bytesSent),
               !.packets_sent = Written(src.call_stats.packetsSent)]
      s2 == IF HasRtt(src.call_stats)
            THEN [s1 EXCEPT !.rtt_ms = Written(src.call_stats.rttMs)]
            ELSE s1
      s3 == [s2 EXCEPT !.aec_quality_min = Written(-1)]
      s4 == CodecAndBlocks(s3, ch, src.blocks)
      s5 == [s4 EXCEPT !.audio_level = Written(Out(src.speech, "level", 0))]
      s6 == EchoMetrics(s5, src)
  IN [s6 EXCEPT !.typing_noise_detected = Written(src.typing_noise_detected)]

\* The answers of the sources.
MaxBlocks == 2

RttsMs == {-1, 0, 50}

CallStatistics == {[bytesSent |-> 1000, packetsSent |-> 10, rttMs |-> r] : r \in RttsMs}

ReportBlock(ssrc, fraction, lost, seqnum, jitter) ==
  [source_SSRC |-> ssrc, fraction_lost |-> fraction,
   cumulative_num_packets_lost |-> lost,
   extended_highest_sequence_number |-> seqnum, interarrival_jitter |-> jitter]

ReportBlocks ==
  { ReportBlock(LocalSsrc, 64, 5, 1000, 960),
    ReportBlock(LocalSsrc, 128, 9, 2000, 480),
    ReportBlock(5678, 255, 77, 3000, 96) }

BlockLists == UNION { [1..n -> ReportBlocks] : n \in 0..MaxBlocks }

Failed(r) == [r EXCEPT !.error = -1]

SpeechLevel == [error |-> 0, level |-> 100]

EcStatus(enabled) == [error |-> 0, enabled |-> enabled]

EcDelay == [error |-> 0, median |-> 20, std |-> 4]

Echo == [error |-> 0, erl |-> 10, erle |-> -5]

\* What audio processing answers.  A read that the code does not get to, or
\* whose answer it cannot tell apart, is listed once.
ProcessingAnswers ==
  { [speech |-> sp, ec_status |-> st, ec_delay |-> d, echo |-> e] :
      sp \in {SpeechLevel, Failed(SpeechLevel)},
      st \in {EcStatus(TRUE)},
      d \in {EcDelay, Failed(EcDelay)},
      e \in {Echo, Failed(Echo)} }
  \cup
  { [speech |-> sp, ec_status |-> st, ec_delay |-> EcDelay, echo |-> Echo] :
      sp \in {SpeechLevel, Failed(SpeechLevel)},
      st \in {EcStatus(FALSE), Failed(EcStatus(TRUE))} }

StatsSources ==
  { [call_stats |-> c, blocks |-> b, speech |-> p.speech,
     ec_status |-> p.ec_status, ec_delay |-> p.ec_delay, echo |-> p.echo,
     typing_noise_detected |-> t] :
      c \in CallStatistics, b \in BlockLists, p \in ProcessingAnswers,
      t \in BOOLEAN }

\* GetStats() on the owning thread.  A failed RTC_DCHECK_EQ ends the process
\* in a build that has them on, and is not there in a build that has not.
\* The snapshot is returned by value: stats holds it while the caller does.
StatsQuery ==
  /\ stream = "live"
  /\ pc = "idle"
  /\ ~crashed
  /\ stats = NoStats
  /\ \E src \in StatsSources, dcheck_is_on \in BOOLEAN :
       IF dcheck_is_on /\ ~DChecksHold(src)
       THEN /\ crashed' = TRUE
            /\ stats' = [status |-> "aborted", src |-> src]
       ELSE /\ stats' = [status |-> "returned", src |-> src,
                         out |-> GetStats(config, chan, src)]
            /\ UNCHANGED crashed
  /\ UNCHANGED <<stream, config, chan, wiring, setup, prev, pc, queue, event,
                 allocator, log, nOps, nUpdates, lastUpdate>>

\* The caller lets go of the snapshot it was given.
StatsRelease ==
  /\ stats.status = "returned"
  /\ stats' = NoStats
  /\ UNCHANGED <<stream, config, chan, wiring, setup, prev, pc, queue, event,
                 allocator, log, nOps, nUpdates, lastUpdate, crashed>>

----------------------------------------------------------------------------
(* Specifications                                                           *)

\* One stream on its channel, from construction to destruction.
Next ==
  \/ \E cfg \in LifecycleConfigs, rc \in LifecycleReturnCodes :
       stream = "none" /\ Construct(cfg, rc)
  \/ Start
  \/ StartResume
  \/ Stop
  \/ StopResume
  \/ RunTask
  \/ BitrateUpdate
  \/ DanglingUpdate
  \/ Destroy

Spec == Init /\ [][Next]_vars

\* The owning thread and the worker queue alone (the allocator's callbacks
\* take no part in the wait), with a worker queue that runs every task posted
\* to it and an owning thread that goes on once the event it waits for is set.
NextWait ==
  \/ \E cfg \in LifecycleConfigs, rc \in LifecycleReturnCodes :
       stream = "none" /\ Construct(cfg, rc)
  \/ Start
  \/ StartResume
  \/ Stop
  \/ StopResume
  \/ RunTask
  \/ Destroy

FairSpec ==
  /\ Init /\ [][NextWait]_vars
  /\ WF_vars(RunTask)
  /\ WF_vars(StartResume)
  /\ WF_vars(StopResume)

\* Streams constructed one after the other on the same channel, over every
\* send codec spec and every answer of the channel.
NextCodec ==
  \/ \E cfg \in CodecConfigs, rc \in ReturnCodes : Construct(cfg, rc)
  \/ Destroy

SpecCodec == Init /\ [][NextCodec]_vars

\* One stream whose statistics are read, over every answer of the sources.
NextStats ==
  \/ \E cfg \in StatsConfigs, rc \in LifecycleReturnCodes :
       stream = "none" /\ Construct(cfg, rc)
  \/ StatsQuery
  \/ StatsRelease

SpecStats == Init /\ [][NextStats]_vars

\* Streams constructed one after the other, over every RTP configuration.
NextWiring ==
  \/ \E cfg \in WiringConfigs, rc \in LifecycleReturnCodes : Construct(cfg, rc)
  \/ Destroy

SpecWiring == Init /\ [][NextWiring]_vars

----------------------------------------------------------------------------
(* Reading the log                                                          *)

OpsOf(ops) == SelectSeq(log, LAMBDA e : e.op \in ops)

\* The Start()/Stop() calls made so far, in order.
CallsMade == [i \in 1..Len(OpsOf({"Start", "Stop"})) |-> OpsOf({"Start", "Stop"})[i].op]

\* The allocator calls made so far, in order, with the thread that made them.
AllocatorCalls == OpsOf({"AddObserver", "RemoveObserver"})

\* The position of the Start()/Stop() call entry i belongs to (0: none).
CallOf(i) ==
  LET S == {j \in 1..i : log[j].op \in {"Start", "Stop"}}
  IN IF S = {} THEN 0 ELSE CHOOSE j \in S : \A k \in S : k <= j

\* The entries with operation op that the call at position c made before
\* position i.
MadeBy(c, op, i) == {j \in (c + 1)..(i - 1) : log[j].op = op /\ CallOf(j) = c}

\* A Start() call that went to StartSend without posting a registration.
WentDirect(c) == c < Len(log) /\ log[c + 1].op = "StartSend"

----------------------------------------------------------------------------
(* Claims                                                                   *)

\* C1: with both bounds enabled, Start() then Stop() makes exactly one
\* AddObserver and then exactly one RemoveObserver, both on the worker queue.
C1_StartStopPairing ==
  ( /\ stream = "live"
    /\ config.min_bitrate_kbps # -1 /\ config.max_bitrate_kbps # -1
    /\ pc = "idle"
    /\ CallsMade = <<"Start", "Stop">> )
  => AllocatorCalls = << Entry("AddObserver", "worker", 0),
                         Entry("RemoveObserver", "worker", 0) >>

C1_Witness ==
  /\ stream = "live"
  /\ config.min_bitrate_kbps = 64 /\ config.max_bitrate_kbps = 128
  /\ pc = "idle"
  /\ CallsMade = <<"Start", "Stop">>
  /\ Len(AllocatorCalls) = 2

\* C2: in a Start() with adaptation enabled, AddObserver of that Start() has
\* been made before StartSend is called and before Start() returns.
C2_RegisteredBeforeStartSend ==
  (stream = "live" /\ config.min_bitrate_kbps # -1 /\ config.max_bitrate_kbps # -1)
  => /\ \A i \in 1..Len(log) :
          log[i].op = "StartSend" => MadeBy(CallOf(i), "AddObserver", i) # {}
     /\ \A c \in 1..Len(log) :
          (log[c].op = "Start" /\ CallOf(Len(log)) = c /\ pc = "idle")
          => MadeBy(c, "AddObserver", Len(log) + 1) # {}

C2_Witness ==
  /\ stream = "live"
  /\ config.min_bitrate_kbps # -1 /\ config.max_bitrate_kbps # -1
  /\ pc = "idle"
  /\ Len(log) >= 3
  /\ log[Len(log)].op = "StartSend"
  /\ log[Len(log) - 1].op = "AddObserver"

\* C3: every Stop() posts exactly one RemoveObserver to the worker queue and
\* waits for it, registered or not; StopSend is called only after it has run.
C3_StopAlwaysDeregisters ==
  /\ \A i \in 1..Len(log) :
       log[i].op = "StopSend"
       => /\ log[CallOf(i)].op = "Stop"
          /\ Cardinality(MadeBy(CallOf(i), "RemoveObserver", i)) = 1
          /\ \A j \in MadeBy(CallOf(i), "RemoveObserver", i) : log[j].thread = "worker"
  /\ \A c \in 1..Len(log) :
       (log[c].op = "Stop" /\ CallOf(Len(log)) = c)
       => \/ /\ pc = "stop_wait"
             /\ ~event
             /\ queue = <<RemoveObserverTask>>
             /\ MadeBy(c, "RemoveObserver", Len(log) + 1) = {}
          \/ /\ pc = "stop_wait"
             /\ event
             /\ queue = <<>>
             /\ Cardinality(MadeBy(c, "RemoveObserver", Len(log) + 1)) = 1
             /\ MadeBy(c, "StopSend", Len(log) + 1) = {}
          \/ /\ pc = "idle"
             /\ Cardinality(MadeBy(c, "RemoveObserver", Len(log) + 1)) = 1
             /\ Cardinality(MadeBy(c, "StopSend", Len(log) + 1)) = 1

\* A Stop() completed on a stream that was never registered.
C3_Witness ==
  /\ stream = "live"
  /\ config.min_bitrate_kbps = -1
  /\ pc = "idle"
  /\ CallsMade = <<"Stop">>
  /\ log[Len(log)].op = "StopSend"
  /\ OpsOf({"AddObserver"}) = <<>>
  /\ Len(OpsOf({"RemoveObserver"})) = 1

\* C4: when destruction completes the stream is not registered at the
\* allocator any more (stated as the claim has it; the destructor makes no
\* RemoveObserver call).
C4_NoObserverAfterDestruction ==
  stream = "destroyed" => ~allocator.observer

\* C5 as stated: Start() posts a registration iff both bounds are >= 0.
C5_RegistersIffNonNegative ==
  stream = "live"
  => \A c \in 1..Len(log) :
       log[c].op = "Start"
       => (~WentDirect(c) <=> (config.min_bitrate_kbps >= 0 /\ config.max_bitrate_kbps >= 0))

\* C5, amended: Start() posts a registration (exactly one) iff both bounds
\* differ from -1; otherwise it goes directly to StartSend.
C5_RegistersIffNotMinusOne ==
  stream = "live"
  => /\ \A c \in 1..Len(log) :
          log[c].op = "Start"
          => (~WentDirect(c)
              <=> (config.min_bitrate_kbps # -1 /\ config.max_bitrate_kbps # -1))
     /\ (pc = "start_wait"
         => /\ config.min_bitrate_kbps # -1 /\ config.max_bitrate_kbps # -1
            /\ IF event THEN queue = <<>> ELSE queue = <<AddObserverTask(config)>>)

\* A Start() that registered although one bound is negative.
C5_Witness ==
  /\ stream = "live"
  /\ config.min_bitrate_kbps = -2
  /\ pc = "idle"
  /\ CallsMade = <<"Start">>
  /\ Len(OpsOf({"AddObserver"})) = 1

\* C6: a callback with bitrate_bps >= the configured minimum makes exactly one
\* SetBitrate call, with min(bitrate_bps, max) (as uint32_t values), and
\* returns 0 whatever fraction_loss and rtt are.
C6_BitrateClamp ==
  ( /\ stream = "live"
    /\ lastUpdate.valid
    /\ U32Ge(lastUpdate.bitrate_bps, ToUint32(config.min_bitrate_kbps * 1000)) )
  => LET max_bps == ToUint32(config.max_bitrate_kbps * 1000)
         expected == IF U32Gt(lastUpdate.bitrate_bps, max_bps)
                     THEN max_bps ELSE lastUpdate.bitrate_bps
     IN /\ Len(lastUpdate.calls) = 1
        /\ lastUpdate.calls[1].fn = "SetBitrate"
        /\ lastUpdate.calls[1].args = <<expected>>
        /\ chan.bitrate = expected
        /\ lastUpdate.ret = 0

\* A callback above the configured maximum, with loss and RTT reported.
C6_Witness ==
  /\ stream = "live"
  /\ lastUpdate.valid
  /\ config.max_bitrate_kbps = 128
  /\ lastUpdate.bitrate_bps = ToUint32(200000)
  /\ lastUpdate.fraction_loss = 255
  /\ lastUpdate.rtt = 100
  /\ chan.bitrate = ToUint32(128000)

----------------------------------------------------------------------------
(* Reading the calls of SetupSendCodec()                                    *)

\* The positions of the calls to fn.
Issued(fn) == {i \in 1..Len(setup.calls) : setup.calls[i].fn = fn}

\* The positions of the calls fn(channel, true).
IssuedEnable(fn) == {i \in Issued(fn) : setup.calls[i].args = <<TRUE>>}

Refused(i) == setup.calls[i].ret # 0

\* A call was refused among those made before the CNG step.
RefusedBeforeCng ==
  \/ \E i \in Issued("SetSendCodec") : Refused(i)
  \/ \E i \in IssuedEnable("SetFECStatus") : Refused(i)
  \/ \E i \in Issued("SetOpusDtx") : Refused(i)
  \/ \E i \in Issued("SetOpusMaxPlaybackRate") : Refused(i)

\* The codec name is "opus" in some mix of cases.
NamedOpus(codec) ==
  [i \in 1..Len(codec.plname) |-> ToLowerChar(codec.plname[i])] = <<"o", "p", "u", "s">>

\* C7 as stated: two runs with the same codec descriptor on the same channel,
\* the first finding that codec not yet active, issue SetSendCodec exactly
\* once between them (the second run issues none).
C7_TwoRunsSetCodecOnce ==
  ( /\ stream = "live"
    /\ prev.ran
    /\ prev.codec_inst = config.send_codec_spec.codec_inst
    /\ prev.nSet = 1 )
  => prev.nSet + Cardinality(Issued("SetSendCodec")) = 1

\* C7, amended: SetSendCodec is issued (once) exactly when the channel has no
\* send codec or one that differs from the requested descriptor; a second run
\* with the same descriptor issues none when the first run's SetSendCodec was
\* not refused, so the two runs issue it at most once between them.
C7_SetCodecOnlyWhenNeeded ==
  stream = "live"
  => LET want == config.send_codec_spec.codec_inst
         get == setup.calls[3]
         n == Cardinality(Issued("SetSendCodec"))
     IN /\ get.fn = "GetSendCodec"
        /\ n = IF get.ret # 0 \/ get.args[1] # want THEN 1 ELSE 0
        /\ \A i \in Issued("SetSendCodec") : setup.calls[i].args = <<want>>
        /\ (prev.ran /\ prev.codec_inst = want /\ prev.setRet = 0)
           => (n = 0 /\ prev.nSet + n <= 1)

\* The second of two runs with the same descriptor, the first having set it.
C7_Witness ==
  /\ stream = "live"
  /\ prev.ran
  /\ prev.codec_inst = config.send_codec_spec.codec_inst
  /\ prev.nSet = 1
  /\ prev.setRet = 0
  /\ Issued("SetSendCodec") = {}
  /\ setup.result

\* C8 as stated: after codec configuration VAD is enabled iff the CNG clock
\* rate equals the codec's and the codec is mono.
C8_VadIffRateAndMono ==
  stream = "live"
  => (chan.vad <=> ( /\ config.send_codec_spec.cng_plfreq
                          = config.send_codec_spec.codec_inst.plfreq
                     /\ config.send_codec_spec.codec_inst.channels = 1 ))

\* C8, amended: the VAD-enable call is issued iff a CNG payload type is
\* configured, no earlier call was refused, the CNG clock rate equals the
\* codec's and the codec is mono; VAD ends enabled iff that call was accepted,
\* and stays at the disabled baseline otherwise.
C8_VadGating ==
  stream = "live"
  => LET spec == config.send_codec_spec
         wanted == /\ spec.cng_payload_type # -1
                   /\ spec.cng_plfreq = spec.codec_inst.plfreq
                   /\ spec.codec_inst.channels = 1
     IN /\ (IssuedEnable("SetVADStatus") # {}) <=> (wanted /\ ~RefusedBeforeCng)
        /\ Cardinality(IssuedEnable("SetVADStatus")) <= 1
        /\ chan.vad <=> \E i \in IssuedEnable("SetVADStatus") : ~Refused(i)

\* A CNG payload type with a stereo codec of the same clock rate: no VAD.
C8_Witness ==
  /\ stream = "live"
  /\ setup.result
  /\ config.send_codec_spec.cng_payload_type = 13
  /\ config.send_codec_spec.cng_plfreq = 16000
  /\ config.send_codec_spec.codec_inst.plfreq = 16000
  /\ config.send_codec_spec.codec_inst.channels = 2
  /\ ~chan.vad
  /\ IssuedEnable("SetVADStatus") = {}

\* C9 as stated: no SetOpusDtx / SetOpusMaxPlaybackRate call for a codec not
\* named Opus; for Opus the DTX call is always issued, the playback-rate call
\* only for a positive rate.
C9_OpusCallsAlways ==
  stream = "live"
  => LET spec == config.send_codec_spec
     IN IF NamedOpus(spec.codec_inst)
        THEN /\ Issued("SetOpusDtx") # {}
             /\ (Issued("SetOpusMaxPlaybackRate") # {}
                 => spec.opus_max_playback_rate > 0)
        ELSE Issued("SetOpusDtx") = {} /\ Issued("SetOpusMaxPlaybackRate") = {}

\* C9, amended: as stated, but for Opus the DTX call is issued iff neither
\* SetSendCodec nor the FEC enable was refused before it (with the configured
\* flag), and the playback-rate call iff the DTX call was accepted and the
\* configured rate is positive.
C9_OpusGating ==
  stream = "live"
  => LET spec == config.send_codec_spec
         early == \/ \E i \in Issued("SetSendCodec") : Refused(i)
                  \/ \E i \in IssuedEnable("SetFECStatus") : Refused(i)
     IN IF NamedOpus(spec.codec_inst)
        THEN /\ (Issued("SetOpusDtx") # {}) <=> ~early
             /\ \A i \in Issued("SetOpusDtx") :
                  setup.calls[i].args = <<spec.enable_opus_dtx>>
             /\ (Issued("SetOpusMaxPlaybackRate") # {})
                <=> ( /\ spec.opus_max_playback_rate > 0
                      /\ \E i \in Issued("SetOpusDtx") : ~Refused(i) )
        ELSE Issued("SetOpusDtx") = {} /\ Issued("SetOpusMaxPlaybackRate") = {}

\* A codec that is not Opus, configured with DTX and a playback rate.
C9_Witness ==
  /\ stream = "live"
  /\ setup.result
  /\ ~NamedOpus(config.send_codec_spec.codec_inst)
  /\ config.send_codec_spec.enable_opus_dtx
  /\ config.send_codec_spec.opus_max_playback_rate = 16000
  /\ Issued("SetOpusDtx") = {}
  /\ Issued("SetOpusMaxPlaybackRate") = {}

\* C10: SetupSendCodec() returns true iff none of the fatal calls it issued
\* was refused; a refused CNG registration does not change the result and the
\* VAD step after it is still carried out.
C10_ResultIffFatalStepsSucceeded ==
  stream = "live"
  => LET spec == config.send_codec_spec
         fatal == \/ RefusedBeforeCng
                  \/ \E i \in IssuedEnable("SetVADStatus") : Refused(i)
     IN /\ setup.result <=> ~fatal
        /\ \A i \in Issued("SetSendCNPayloadType") :
             ( /\ spec.cng_plfreq = spec.codec_inst.plfreq
               /\ spec.codec_inst.channels = 1 )
             => \E j \in IssuedEnable("SetVADStatus") : j > i

\* A refused CNG registration in a run that enabled VAD and returned true.
C10_Witness ==
  /\ stream = "live"
  /\ setup.result
  /\ \E i \in Issued("SetSendCNPayloadType") : Refused(i)
  /\ IssuedEnable("SetVADStatus") # {}
  /\ chan.vad

----------------------------------------------------------------------------
(* Claims about GetStats()                                                  *)

\* C11: in every snapshot the round-trip time is present only when the
\* channel reports a positive one, and then it is that value; when the
\* channel reports 0 the field is unset, and it is never 0.
C11_RttPresentIffPositive ==
  stats.status = "returned" =>
    /\ stats.out.rtt_ms # Unset <=> stats.src.call_stats.rttMs > 0
    /\ stats.out.rtt_ms # Unset =>
         stats.out.rtt_ms = Written(stats.src.call_stats.rttMs)
    /\ stats.src.call_stats.rttMs = 0 => stats.out.rtt_ms = Unset
    /\ stats.out.rtt_ms # Written(0)

\* A snapshot taken while the channel reports an RTT of 0.
C11_Witness ==
  /\ stats.status = "returned"
  /\ stats.src.call_stats.rttMs = 0
  /\ stats.out.rtt_ms = Unset
  /\ stats.out.bytes_sent = Written(1000)

\* The report blocks of the snapshot's sources that carry the local SSRC.
MatchingBlocks ==
  {i \in 1..Len(stats.src.blocks) :
     stats.src.blocks[i].source_SSRC = config.rtp.ssrc}

\* C12: the packet-loss, fraction-lost, extended-sequence-number and jitter
\* fields of a snapshot hold nothing but the values of the first report block,
\* in list order, whose source SSRC is the local SSRC; they are filled from it
\* when the send codec is known (the jitter when its clock rate is at least
\* 1 kHz), and stay unset when no block matches.
C12_FirstMatchingBlockOnly ==
  stats.status = "returned" =>
    LET o == stats.out
        known == GetSendCodec(chan).ret # -1
        khz == chan.codec.plfreq \div 1000
    IN IF MatchingBlocks = {} \/ ~known
       THEN /\ o.packets_lost = Unset
            /\ o.fraction_lost = Unset
            /\ o.ext_seqnum = Unset
            /\ o.jitter_ms = Unset
       ELSE LET first == CHOOSE i \in MatchingBlocks :
                           \A j \in MatchingBlocks : i <= j
                b == stats.src.blocks[first]
            IN /\ o.packets_lost = <<b.cumulative_num_packets_lost>>
               /\ o.fraction_lost = <<[num |-> b.fraction_lost, den |-> 256]>>
               /\ o.ext_seqnum = <<b.extended_highest_sequence_number>>
               /\ o.jitter_ms = IF khz > 0
                                THEN <<b.interarrival_jitter \div khz>>
                                ELSE Unset

\* A snapshot over two blocks for the local SSRC that differ: the first one
\* is in the snapshot.
C12_Witness ==
  /\ stats.status = "returned"
  /\ Len(stats.src.blocks) = 2
  /\ MatchingBlocks = {1, 2}
  /\ stats.src.blocks[1] # stats.src.blocks[2]
  /\ stats.out.packets_lost = <<stats.src.blocks[1].cumulative_num_packets_lost>>
  /\ stats.out.jitter_ms # Unset

\* What the fields hold that do not depend on the send codec query: the
\* counters, the round-trip time, the speech level, the echo metrics and the
\* typing flag, each from its own source, with the value the local variable
\* starts with where the read failed.
OwnSourceFields ==
  LET o == stats.out
      src == stats.src
      on == src.ec_status.error = 0 /\ src.ec_status.enabled
  IN /\ o.local_ssrc = <<config.rtp.ssrc>>
     /\ o.bytes_sent = <<src.call_stats.bytesSent>>
     /\ o.packets_sent = <<src.call_stats.packetsSent>>
     /\ o.rtt_ms = IF src.call_stats.rttMs > 0 THEN <<src.call_stats.rttMs>>
                   ELSE Unset
     /\ o.audio_level = IF src.speech.error = 0 THEN <<src.speech.level>>
                        ELSE <<0>>
     /\ o.echo_delay_median_ms =
          IF ~on THEN Unset
          ELSE IF src.ec_delay.error = 0 THEN <<src.ec_delay.median>> ELSE <<-1>>
     /\ o.echo_delay_std_ms =
          IF ~on THEN Unset
          ELSE IF src.ec_delay.error = 0 THEN <<src.ec_delay.std>> ELSE <<-1>>
     /\ o.echo_return_loss =
          IF ~on THEN Unset
          ELSE IF src.echo.error = 0 THEN <<src.echo.erl>> ELSE <<-100>>
     /\ o.echo_return_loss_enhancement =
          IF ~on THEN Unset
          ELSE IF src.echo.error = 0 THEN <<src.echo.erle>> ELSE <<-100>>
     /\ o.typing_noise_detected = <<src.typing_noise_detected>>

\* Some read of the audio processing that GetStats() gets to returned an error.
ProcessingReadFailed ==
  \/ stats.src.speech.error # 0
  \/ stats.src.ec_status.error # 0
  \/ /\ stats.src.ec_status.enabled
     /\ stats.src.ec_delay.error # 0 \/ stats.src.echo.error # 0

\* C17 as stated: no error of a source aborts the snapshot, an error leaves
\* only the fields fed by that read at their defaults, and every other field
\* is filled from its own source; so a failed send codec query leaves the
\* codec name unset, and the loss fields still come from the report blocks.
C17_ErrorsLeaveOtherFieldsFilled ==
  /\ stats.status # "aborted"
  /\ stats.status = "returned" =>
       /\ OwnSourceFields
       /\ stats.out.codec_name =
            IF GetSendCodec(chan).ret # -1 THEN <<chan.codec.plname>> ELSE Unset
       /\ MatchingBlocks # {} =>
            /\ stats.out.packets_lost # Unset
            /\ stats.out.fraction_lost # Unset
            /\ stats.out.ext_seqnum # Unset

\* C17, amended: GetStats() ends the process only when a read of the audio
\* processing returned an error (a build with RTC_DCHECK on).  In a snapshot
\* that is returned, a failed send codec query leaves the codec name and the
\* four report block fields unset, whatever the report blocks hold; a failed
\* read of the audio processing leaves the fields it feeds at the value the
\* local variable starts with (level 0, delay -1, return loss -100, no echo
\* fields when the status read failed); every other field is filled from its
\* own source.
C17_ErrorsAndWhatTheyLeave ==
  /\ stats.status = "aborted" => ProcessingReadFailed
  /\ stats.status = "returned" =>
       /\ OwnSourceFields
       /\ stats.out.codec_name =
            IF GetSendCodec(chan).ret # -1 THEN <<chan.codec.plname>> ELSE Unset
       /\ GetSendCodec(chan).ret = -1 =>
            /\ stats.out.packets_lost = Unset
            /\ stats.out.fraction_lost = Unset
            /\ stats.out.ext_seqnum = Unset
            /\ stats.out.jitter_ms = Unset
       /\ (GetSendCodec(chan).ret # -1 /\ MatchingBlocks # {}) =>
            /\ stats.out.packets_lost # Unset
            /\ stats.out.fraction_lost # Unset
            /\ stats.out.ext_seqnum # Unset

\* A snapshot returned although the send codec query, the speech level read
\* and the echo delay read failed, with a report block for the local SSRC.
C17_Witness ==
  /\ stats.status = "returned"
  /\ GetSendCodec(chan).ret = -1
  /\ MatchingBlocks # {}
  /\ stats.src.speech.error # 0
  /\ stats.src.ec_status.error = 0 /\ stats.src.ec_status.enabled
  /\ stats.src.ec_delay.error # 0
  /\ stats.src.echo.error = 0
  /\ stats.out.packets_lost = Unset
  /\ stats.out.audio_level = <<0>>
  /\ stats.out.echo_delay_median_ms = <<-1>>
  /\ stats.out.echo_return_loss = <<10>>

----------------------------------------------------------------------------
(* Claims about the constructor                                             *)

\* The SetNACKStatus call of the constructor (the sixth wiring call).
NackCall == wiring[6]

\* C18 as stated: NACK is enabled exactly when the history is greater than
\* 0 ms, for every history including negative ones, and the window passed is
\* the history divided by 20.
C18_NackIffPositive ==
  stream = "live" =>
    LET ms == config.rtp.nack.rtp_history_ms IN
      /\ NackCall.fn = "SetNACKStatus"
      /\ NackCall.args[1] = (ms > 0)
      /\ NackCall.args[2] = IF ms >= 0 THEN ms \div 20 ELSE -((-ms) \div 20)

\* C18, amended: NACK is enabled exactly when the history differs from 0 ms,
\* so also for a negative history; the window passed is the history divided
\* by 20 with the quotient truncated towards zero (0 for 1 to 19 ms and for
\* -19 to -1 ms, negative below that).
C18_NackIffNonZero ==
  stream = "live" =>
    LET ms == config.rtp.nack.rtp_history_ms IN
      /\ NackCall.fn = "SetNACKStatus"
      /\ NackCall.args[1] = (ms # 0)
      /\ NackCall.args[2] = IF ms >= 0 THEN ms \div 20 ELSE -((-ms) \div 20)
      /\ ms = 0 => NackCall.args = <<FALSE, 0>>
      /\ ms \in 1..19 => NackCall.args = <<TRUE, 0>>

\* A stream constructed with a history of -50 ms: NACK on, window -2.
C18_Witness ==
  /\ stream = "live"
  /\ config.rtp.nack.rtp_history_ms = -50
  /\ NackCall.args = <<TRUE, -2>>
  /\ Len(config.rtp.extensions) = 2

\* The wiring calls every stream makes, in the order of the constructor.
FixedWiring ==
  << "SetRtcEventLog", "RegisterSenderCongestionControlObjects",
     "SetRTCPStatus", "SetLocalSSRC", "SetRTCP_CNAME", "SetNACKStatus",
     "RegisterExternalTransport" >>

ExtensionWiring ==
  {"SetSendAbsoluteSenderTimeStatus", "SetSendAudioLevelIndicationStatus",
   "EnableSendTransportSequenceNumber"}

\* C13: the constructor calls SetupSendCodec() exactly once, after every
\* wiring call (the seven fixed ones, then one per header extension).  When
\* it fails the stream is constructed all the same, nothing of the wiring is
\* undone, and Start(), Stop() and the destructor can be called as on a
\* stream whose SetupSendCodec() succeeded.
C13_SetupOnceAfterWiring ==
  /\ wiring # <<>> => stream = "live"
  /\ stream = "live" =>
       LET n == Len(wiring) IN
         /\ n = Len(FixedWiring) + Len(config.rtp.extensions) + 1
         /\ \A i \in 1..Len(FixedWiring) : wiring[i].fn = FixedWiring[i]
         /\ \A i \in (Len(FixedWiring) + 1)..(n - 1) :
              wiring[i].fn \in ExtensionWiring
         /\ wiring[n].fn = "SetupSendCodec"
         /\ CountCalls(wiring, "SetupSendCodec") = 1
         /\ Len(setup.calls) >= 3
         /\ \A i \in 1..Len(log) :
              log[i].op \notin {"DeRegisterExternalTransport",
                                "ResetCongestionControlObjects", "SetRtcEventLog"}
         /\ (pc = "idle" /\ ~crashed) => ENABLED Destroy
         /\ (pc = "idle" /\ ~crashed /\ nOps < MaxOps) =>
              ENABLED Start /\ ENABLED Stop

\* A stream whose SetupSendCodec() failed, started and stopped like any other.
C13_Witness ==
  /\ stream = "live"
  /\ ~setup.result
  /\ wiring[Len(wiring)].fn = "SetupSendCodec"
  /\ pc = "idle"
  /\ Len(log) >= 6
  /\ log[1].op = "Start"
  /\ log[2].op = "AddObserver"
  /\ log[3].op = "StartSend"
  /\ log[4].op = "Stop"
  /\ log[5].op = "RemoveObserver"
  /\ log[6].op = "StopSend"

----------------------------------------------------------------------------
(* Claims about the order of the calls of SetupSendCodec()                  *)

\* The positions of the calls whose refusal ends SetupSendCodec().
FatalCalls ==
  Issued("SetSendCodec") \cup IssuedEnable("SetFECStatus")
    \cup Issued("SetOpusDtx") \cup Issued("SetOpusMaxPlaybackRate")
    \cup IssuedEnable("SetVADStatus")

\* C14: a refused fatal call (SetSendCodec, SetFECStatus(true), SetOpusDtx,
\* SetOpusMaxPlaybackRate, SetVADStatus(true)) is the last call of the run,
\* and the run returns false.  After a refused SetSendCodec there is no FEC,
\* DTX, playback-rate, CNG or VAD-enable call, and the channel is as the
\* earlier steps left it: VAD off, FEC off, the send codec it had before.
C14_FatalFailureEndsRun ==
  stream = "live" =>
    /\ \A i \in FatalCalls :
         Refused(i) => i = Len(setup.calls) /\ ~setup.result
    /\ (\E i \in Issued("SetSendCodec") : Refused(i)) =>
         /\ IssuedEnable("SetFECStatus") = {}
         /\ Issued("SetOpusDtx") = {}
         /\ Issued("SetOpusMaxPlaybackRate") = {}
         /\ Issued("SetSendCNPayloadType") = {}
         /\ IssuedEnable("SetVADStatus") = {}
         /\ ~chan.vad
         /\ ~chan.fec
         /\ chan.codec = setup.calls[3].args[1]

\* A run whose SetSendCodec was refused although its spec asks for FEC, and
\* whose channel had a send codec from an earlier stream.
C14_Witness ==
  /\ stream = "live"
  /\ \E i \in Issued("SetSendCodec") : Refused(i)
  /\ config.send_codec_spec.enable_codec_fec
  /\ CngConfigured(config.send_codec_spec)
  /\ chan.codec # ZeroCodec
  /\ ~setup.result

\* The place of a call in the order the claim gives.
Step(call) ==
  CASE call.fn = "SetVADStatus" -> IF call.args = <<FALSE>> THEN 1 ELSE 9
    [] call.fn = "SetFECStatus" -> IF call.args = <<FALSE>> THEN 2 ELSE 5
    [] call.fn = "GetSendCodec" -> 3
    [] call.fn = "SetSendCodec" -> 4
    [] call.fn = "SetOpusDtx" -> 6
    [] call.fn = "SetOpusMaxPlaybackRate" -> 7
    [] call.fn = "SetSendCNPayloadType" -> 8

\* C15: every run starts with SetVADStatus(false), then SetFECStatus(false),
\* then the codec selection (GetSendCodec, and SetSendCodec when needed); the
\* calls after it come in the order SetFECStatus(true), SetOpusDtx,
\* SetOpusMaxPlaybackRate, SetSendCNPayloadType, SetVADStatus(true), each at
\* most once, so no FEC or VAD enable comes before the codec selection.
C15_CallOrder ==
  stream = "live" =>
    /\ Len(setup.calls) >= 3
    /\ \A i \in 1..3 : Step(setup.calls[i]) = i
    /\ \A i, j \in 1..Len(setup.calls) :
         i < j => Step(setup.calls[i]) < Step(setup.calls[j])

\* A run that sets the codec, enables FEC, registers CNG and enables VAD.
C15_Witness ==
  /\ stream = "live"
  /\ Len(setup.calls) = 7
  /\ Step(setup.calls[4]) = 4
  /\ Step(setup.calls[5]) = 5
  /\ Step(setup.calls[6]) = 8
  /\ Step(setup.calls[7]) = 9
  /\ setup.result

----------------------------------------------------------------------------
(* Claims about failures and blocking in Start() and Stop()                 *)

\* The StartSend calls that failed in a Start() that had registered.
FailedStartSends ==
  {i \in 1..Len(log) :
     /\ log[i].op = "StartSend"
     /\ log[i].ret # 0
     /\ MadeBy(CallOf(i), "AddObserver", i) # {}}

\* C16: a StartSend that fails in a Start() that registered the stream is
\* only logged: Start() returns, no RemoveObserver is made for it, and the
\* stream stays registered until the RemoveObserver of a later Stop().
C16_StartSendFailureKeepsRegistration ==
  \A i \in FailedStartSends :
    /\ i = Len(log) => pc = "idle"
    /\ \A j \in (i + 1)..Len(log) :
         log[j].op = "RemoveObserver" =>
           /\ CallOf(j) > i
           /\ log[CallOf(j)].op = "Stop"
           /\ log[j].thread = "worker"
    /\ (\A j \in (i + 1)..Len(log) : log[j].op # "RemoveObserver") =>
         allocator.observer

\* Start() has returned after a failed StartSend, and the stream is registered.
C16_Witness ==
  /\ stream = "live"
  /\ pc = "idle"
  /\ Len(log) = 3
  /\ FailedStartSends = {3}
  /\ allocator.observer
  /\ ~chan.sending

\* C19: Start() with adaptation enabled, and every Stop(), wait for the
\* posted task with no timeout.  While the task has not run the call does not
\* return and makes no StartSend / StopSend, and only the worker running the
\* task ends the wait; with a worker queue that runs its tasks every such
\* call returns.  Start() with adaptation disabled never waits.
C19_BlockingWait ==
  /\ [](pc = "start_wait" =>
          config.min_bitrate_kbps # -1 /\ config.max_bitrate_kbps # -1)
  /\ [][ /\ (pc # "idle" /\ ~event) =>
              /\ pc' = pc
              /\ OpsOf({"StartSend", "StopSend"})' = OpsOf({"StartSend", "StopSend"})
         /\ (~event /\ event') =>
              /\ queue # <<>>
              /\ queue' = Tail(queue)
              /\ log' = Append(log, Entry(Head(queue).kind, "worker", 0)) ]_vars
  /\ (pc = "start_wait") ~> (pc = "idle")
  /\ (pc = "stop_wait") ~> (pc = "idle")

\* Stop() is still waiting, on a stream that never registered, after its
\* RemoveObserver task has run.
C19_Witness ==
  /\ stream = "live"
  /\ config.min_bitrate_kbps = -1
  /\ pc = "stop_wait"
  /\ event
  /\ queue = <<>>
  /\ log[Len(log)] = Entry("RemoveObserver", "worker", 0)
  /\ \E i \in 1..Len(log) : log[i].op = "StartSend" /\ log[i - 1].op = "Start"

----------------------------------------------------------------------------
(* Claims about the allocator's callbacks                                   *)

\* The allocator calls made before position i.
AllocatorCallsBefore(i) ==
  {j \in 1..(i - 1) : log[j].op \in {"AddObserver", "RemoveObserver"}}

\* C20: with an allocator that calls only registered observers, and on the
\* worker queue, every SetBitrate made by OnBitrateUpdated() comes after the
\* AddObserver of a Start() with no RemoveObserver in between, and no Stop()
\* has returned between that AddObserver and the SetBitrate: once Stop() has
\* returned no bitrate update reaches the channel until a later Start() has
\* registered the stream again.
C20_UpdatesOnlyWhileRegistered ==
  \A i \in 1..Len(log) :
    log[i].op = "SetBitrate" =>
      /\ log[i].thread = "worker"
      /\ AllocatorCallsBefore(i) # {}
      /\ LET last == CHOOSE j \in AllocatorCallsBefore(i) :
                       \A k \in AllocatorCallsBefore(i) : k <= j
         IN /\ log[last].op = "AddObserver"
            /\ log[CallOf(last)].op = "Start"
            /\ \A s \in (last + 1)..(i - 1) : log[s].op # "StopSend"
      /\ \A s \in 1..(i - 1) :
           log[s].op = "StopSend" =>
             \E j \in (s + 1)..(i - 1) : log[j].op = "AddObserver"

\* A bitrate update between a Start() and the Stop() after it; the stream is
\* no longer registered when Stop() has returned.
C20_Witness ==
  /\ stream = "live"
  /\ pc = "idle"
  /\ Len(log) = 7
  /\ log[2].op = "AddObserver"
  /\ log[4].op = "SetBitrate"
  /\ log[6].op = "RemoveObserver"
  /\ log[7].op = "StopSend"
  /\ ~allocator.observer

====
